---- MODULE Spec2Model ----
(***************************************************************************)
(* Fleet-rebalancing traffic / flow analysis of src/utils/features.py:      *)
(* create_departures_df, create_arrivals_df, traffic_by_points,             *)
(* calculate_optimal_scooters, create_od_matrix, analyze_od_flows and       *)
(* _classify_point; the tariff of get_total_price; select_control_day;      *)
(* fill_na_median_by_group of src/utils/cleaning.py; and                    *)
(* build_hourly_dataset and add_lag_features of src/utils/modeling.py.      *)
(* A call on a table with a required column missing ends with               *)
(* pc = "KeyError" and returns nothing.                                     *)
(*                                                                          *)
(* Timestamps are integers counting minutes since midnight of day 0.        *)
(* A point id is an integer.  A real number (a float of the code) is an     *)
(* exact fraction [num, den] compared by cross-multiplication.              *)
(*                                                                          *)
(* A wide DataFrame is a record [index, columns, cell]: index is the set of *)
(* bucket timestamps (pandas keeps it ascending), columns the set of point  *)
(* ids, and cell a function on a subset of index \X columns.  A cell that   *)
(* is not in DOMAIN cell is NaN.  A long DataFrame is a sequence of rows.   *)
(*                                                                          *)
(* pandas behaviour the operators follow (pandas 2.2, the first release     *)
(* with resample(include_groups=...)): groupby().resample() fills the       *)
(* buckets between each group's own first and last bucket; unstack and the  *)
(* outer alignment of add / subtract leave NaN where a label pair is        *)
(* missing; fill_value replaces a NaN only when the other side has a value; *)
(* DataFrame.stack() drops the NaN cells; a sort on several columns is      *)
(* stable; groupby and an outer merge return their keys in ascending order. *)
(* Trip tables and the other inputs are not empty and hold no missing       *)
(* values (the cleaning stage hands over complete rows).                    *)
(***************************************************************************)
EXTENDS Integers, Sequences, FiniteSets, TLC

VARIABLES pc, data, period, total_traffic, net_long, daily_min, od_matrix,
          point_summary, row, point_type,
          side, traffic_df, traffic_df_again,
          price_row, start_price_arg, total_price,
          clean_data, fill_cols, filled,
          control_args, control_day,
          hourly, lagged

\* one call of create_departures_df / create_arrivals_df and its repetition
aggregatorVars == <<side, traffic_df, traffic_df_again>>

\* one call of get_total_price
priceVars == <<price_row, start_price_arg, total_price>>

\* one call of fill_na_median_by_group
cleanVars == <<clean_data, fill_cols, filled>>

\* one call of select_control_day
controlVars == <<control_args, control_day>>

\* one call of build_hourly_dataset followed by add_lag_features
hourlyVars == <<hourly, lagged>>

vars == <<pc, data, period, total_traffic, net_long, daily_min, od_matrix,
          point_summary, row, point_type, aggregatorVars, priceVars, cleanVars,
          controlVars, hourlyVars>>

(***************************************************************************)
(* Bounds of the model and the sample values the inputs are drawn from.     *)
(***************************************************************************)
MaxTrips == 2

Points == {1, 2}

\* day 0 23:50, day 1 00:10, day 1 06:10
TripTimes == {1430, 1450, 1810}

\* resampling periods given to traffic_by_points: hourly and daily buckets
Periods == {"h", "D"}

\* periods given to create_od_matrix: None (whole dataset), calendar day,
\* week and month
OdPeriods == {"None", "d", "w", "m"}

(***************************************************************************)
(* Generic helpers.                                                         *)
(***************************************************************************)
Min(S) == CHOOSE x \in S : \A y \in S : x <= y

Max(S) == CHOOSE x \in S : \A y \in S : x >= y

Range(s) == {s[i] : i \in DOMAIN s}

RECURSIVE SumTo(_, _)
SumTo(s, n) == IF n = 0 THEN 0 ELSE s[n] + SumTo(s, n - 1)

SumSeq(s) == SumTo(s, Len(s))

RECURSIVE SortedSeq(_)
SortedSeq(S) == IF S = {} THEN << >> ELSE <<Min(S)>> \o SortedSeq(S \ {Min(S)})

SeqsUpTo(S, n) == UNION {[1..k -> S] : k \in 0..n}

(***************************************************************************)
(* Time units.                                                              *)
(***************************************************************************)
MinutesPerHour == 60

MinutesPerDay == 24 * MinutesPerHour

\* pandas offsets 'h' and 'D' are fixed-width buckets anchored at midnight
PeriodWidth(p) == IF p = "h" THEN MinutesPerHour ELSE MinutesPerDay

FloorTo(t, w) == (t \div w) * w

(***************************************************************************)
(* _get_price_per_minute and get_total_price                                *)
(***************************************************************************)
\* row["start_date"].hour
HourOf(t) == (t % MinutesPerDay) \div MinutesPerHour

\* faulty variant: the weekday tariff on every day of the week
_get_price_per_minute_weekday(hour, day) ==
    IF 1 <= hour /\ hour < 6 THEN 3
    ELSE IF 6 <= hour /\ hour < 10 THEN 4
    ELSE IF 10 <= hour /\ hour < 16 THEN 5
    ELSE IF 16 <= hour /\ hour < 22 THEN 6
    ELSE 5

\* day is the day of the week, 0 = Monday .. 6 = Sunday
_get_price_per_minute(hour, day) ==
    IF day <= 4
    THEN IF 1 <= hour /\ hour < 6 THEN 3
         ELSE IF 6 <= hour /\ hour < 10 THEN 4
         ELSE IF 10 <= hour /\ hour < 16 THEN 5
         ELSE IF 16 <= hour /\ hour < 22 THEN 6
         ELSE 5
    ELSE IF 1 <= hour /\ hour < 6 THEN 3
         ELSE IF 6 <= hour /\ hour < 10 THEN 4
         ELSE IF 10 <= hour /\ hour < 16 THEN 6
         ELSE IF 16 <= hour /\ hour < 22 THEN 7
         ELSE 6

\* the default of the parameter start_price
DefaultStartPrice == 30

get_total_price(r, start_price) ==
    LET day_of_week == r.day_of_week
        hour == HourOf(r.start_date)
        duration_minutes == r.duration_minutes
        price_per_min == _get_price_per_minute(hour, day_of_week)
        is_promo == r.promo
    IN IF day_of_week = 0 /\ 6 <= hour /\ hour < 10 /\ is_promo
       THEN price_per_min * duration_minutes
       ELSE start_price + duration_minutes * price_per_min

(***************************************************************************)
(* select_control_day                                                       *)
(***************************************************************************)
Abs(x) == IF x < 0 THEN -x ELSE x

\* .iloc[0] of an empty table raises IndexError
IndexError == [error |-> "IndexError"]

\* the rows of d that pass the candidates filter
Candidates(d, exclude_day, start_hour, end_hour) ==
    {i \in DOMAIN d :
        /\ d[i].day_of_week /= exclude_day
        /\ HourOf(d[i].start_date) >= start_hour
        /\ HourOf(d[i].start_date) < end_hour}

\* faulty variant: the excluded weekday is not filtered out
select_control_day_all_days(d, target_rides, exclude_day, start_hour, end_hour) ==
    LET candidates == Candidates(d, "none", start_hour, end_hour)
        days == {d[i].day_timestamp : i \in candidates}
        rides(day) == Cardinality({i \in candidates : d[i].day_timestamp = day})
        distance(day) == Abs(rides(day) - target_rides)
    IN IF days = {} THEN {IndexError}
       ELSE {[day_timestamp |-> day] :
               day \in {x \in days : \A y \in days : distance(x) <= distance(y)}}

\* the values the call can return: stats holds one row per day_timestamp of
\* the candidates, and sort_values("distance") is not a stable sort, so
\* .iloc[0] is any of the days of least distance
select_control_day(d, target_rides, exclude_day, start_hour, end_hour) ==
    LET candidates == Candidates(d, exclude_day, start_hour, end_hour)
        days == {d[i].day_timestamp : i \in candidates}
        rides(day) == Cardinality({i \in candidates : d[i].day_timestamp = day})
        distance(day) == Abs(rides(day) - target_rides)
    IN IF days = {} THEN {IndexError}
       ELSE {[day_timestamp |-> day] :
               day \in {x \in days : \A y \in days : distance(x) <= distance(y)}}

(***************************************************************************)
(* _create_traffic_df                                                       *)
(***************************************************************************)
\* data[[date_column, point_column]].copy() with set_index(date_column)
TrafficData(d, date_column, point_column) ==
    [i \in DOMAIN d |-> [date |-> d[i][date_column], point |-> d[i][point_column]]]

\* .groupby(point).resample(period).size(): for every point the buckets from
\* the point's own first bucket to its own last bucket, each with its count
GroupResampleSize(traffic_data, p) ==
    LET w == PeriodWidth(p)
        pts == {traffic_data[i].point : i \in DOMAIN traffic_data}
        bucketsOf(pt) == {FloorTo(traffic_data[i].date, w) :
                            i \in {j \in DOMAIN traffic_data : traffic_data[j].point = pt}}
        span(pt) == {Min(bucketsOf(pt)) + k * w :
                       k \in 0..((Max(bucketsOf(pt)) - Min(bucketsOf(pt))) \div w)}
        keys == UNION {{<<pt, b>> : b \in span(pt)} : pt \in pts}
    IN [k \in keys |->
          Cardinality({i \in DOMAIN traffic_data :
                         /\ traffic_data[i].point = k[1]
                         /\ FloorTo(traffic_data[i].date, w) = k[2]})]

\* .unstack(level=0): the points become columns, the buckets rows
Unstack(series) ==
    [index |-> {k[2] : k \in DOMAIN series},
     columns |-> {k[1] : k \in DOMAIN series},
     cell |-> [c \in {<<k[2], k[1]>> : k \in DOMAIN series} |-> series[<<c[2], c[1]>>]]]

\* .fillna(value)
FillNa(frame, value) ==
    [frame EXCEPT !.cell = [c \in frame.index \X frame.columns |->
                              IF c \in DOMAIN frame.cell THEN frame.cell[c] ELSE value]]

\* data[[date_column, point_column]] raises KeyError when a column is missing
KeyError == [error |-> "KeyError"]

HasColumns(d, cols) == \A i \in DOMAIN d : cols \subseteq DOMAIN d[i]

_create_traffic_df(d, date_column, point_column, p) ==
    IF ~HasColumns(d, {date_column, point_column})
    THEN KeyError
    ELSE FillNa(Unstack(GroupResampleSize(TrafficData(d, date_column, point_column), p)), 0)

\* faulty variant: set_index(date_column, inplace=True) on the caller's table
\* itself, which moves the column into the index
DataAfterSetIndexInPlace(d, date_column) ==
    [i \in DOMAIN d |-> [c \in DOMAIN d[i] \ {date_column} |-> d[i][c]]]

\* the caller's table after the call: traffic_data is a copy, so
\* set_index(date_column, inplace=True) does not reach the caller's table
DataAfterCreateTrafficDf(d, date_column) == d

create_departures_df(d, p) == _create_traffic_df(d, "start_date", "start_location", p)

\* faulty variant: the arrivals are bucketed by the start of the trip
create_arrivals_df_by_start(d, p) == _create_traffic_df(d, "start_date", "end_location", p)

create_arrivals_df(d, p) == _create_traffic_df(d, "end_date", "end_location", p)

\* the two public wrappers: s names the one that is called
DateColumn(s) == IF s = "departures" THEN "start_date" ELSE "end_date"

PointColumn(s) == IF s = "departures" THEN "start_location" ELSE "end_location"

CreateSeries(d, s, p) ==
    IF s = "departures" THEN create_departures_df(d, p) ELSE create_arrivals_df(d, p)

(***************************************************************************)
(* traffic_by_points                                                        *)
(***************************************************************************)
\* left.<op>(right, fill_value=v): both frames are aligned on the union of
\* their labels; a side that is NaN is replaced by v unless both sides are NaN
CombineFrames(left, right, fill_value, op) ==
    LET index == left.index \cup right.index
        columns == left.columns \cup right.columns
        present == DOMAIN left.cell \cup DOMAIN right.cell
        l(c) == IF c \in DOMAIN left.cell THEN left.cell[c] ELSE fill_value
        r(c) == IF c \in DOMAIN right.cell THEN right.cell[c] ELSE fill_value
    IN [index |-> index, columns |-> columns,
        cell |-> [c \in present |-> IF op = "subtract" THEN l(c) - r(c) ELSE l(c) + r(c)]]

\* DataFrame.stack().reset_index(): one row per cell that is not NaN, ordered
\* by bucket and then by point
Stack(frame) ==
    LET idx == SortedSeq(frame.index)
        cols == SortedSeq(frame.columns)
        n == Len(cols)
        all == [k \in 1..(Len(idx) * n) |-> <<idx[((k - 1) \div n) + 1], cols[((k - 1) % n) + 1]>>]
        kept == SelectSeq(all, LAMBDA c : c \in DOMAIN frame.cell)
    IN [k \in DOMAIN kept |->
          [time |-> kept[k][1], point |-> kept[k][2], net_balance |-> frame.cell[kept[k]]]]

\* faulty variant: arrivals.subtract(departures) without fill_value, so that a cell
\* missing on one side is NaN
NetFlowNoFillValue(arrivals, departures) ==
    LET full == CombineFrames(arrivals, departures, 0, "subtract")
    IN [full EXCEPT !.cell = [c \in DOMAIN arrivals.cell \cap DOMAIN departures.cell |->
                                full.cell[c]]]

\* faulty variant: departures.subtract(arrivals, fill_value=0)
NetFlowReversed(arrivals, departures) == CombineFrames(departures, arrivals, 0, "subtract")

\* arrivals.subtract(departures, fill_value=0)
NetFlow(arrivals, departures) == CombineFrames(arrivals, departures, 0, "subtract")

\* net_flow.stack().reset_index() with the columns time, point, net_balance
NetLong(net_flow) == Stack(net_flow)

\* departures.add(arrivals, fill_value=0)
TotalTraffic(departures, arrivals) == CombineFrames(departures, arrivals, 0, "add")

\* the call ends in the KeyError of _create_traffic_df, for the departures
\* or, after them, for the arrivals
traffic_by_points_raises(d) ==
    \/ ~HasColumns(d, {"start_date", "start_location"})
    \/ ~HasColumns(d, {"end_date", "end_location"})

\* the pair (total_traffic, net_long)
traffic_by_points(d, p) ==
    LET departures == create_departures_df(d, p)
        arrivals == create_arrivals_df(d, p)
    IN <<TotalTraffic(departures, arrivals), NetLong(NetFlow(arrivals, departures))>>

(***************************************************************************)
(* calculate_optimal_scooters                                               *)
(***************************************************************************)
\* pd.Timedelta(hours=6)
OperatingDayShiftHours == 6

\* faulty variant: the calendar date of the timestamp, without the 6 hour shift
DayKeyCalendar(t) == t \div MinutesPerDay

\* faulty variant: the shift goes forward, (time + 6 hours).dt.date
DayKeyForward(t) == (t + OperatingDayShiftHours * MinutesPerHour) \div MinutesPerDay

\* (time - 6 hours).dt.date, the date as a day number
DayKey(t) == (t - OperatingDayShiftHours * MinutesPerHour) \div MinutesPerDay

\* net_long.copy() with the day_6am column added
WithDay6am(nl) ==
    [i \in DOMAIN nl |->
       [time |-> nl[i].time, point |-> nl[i].point, net_balance |-> nl[i].net_balance,
        day_6am |-> DayKey(nl[i].time)]]

\* lexicographic order of integer tuples of one length
LexLess(a, b) ==
    \E i \in DOMAIN a : a[i] < b[i] /\ \A j \in 1..(i - 1) : a[j] = b[j]

SortKey(r) == <<r.point, r.day_6am, r.time>>

KeyNoTime(r) == <<r.point, r.day_6am>>

\* r put behind the rows of sorted whose (point, day_6am) is not greater
InsertNoTime(sorted, r) ==
    LET n == Cardinality({k \in DOMAIN sorted : ~LexLess(KeyNoTime(r), KeyNoTime(sorted[k]))})
    IN SubSeq(sorted, 1, n) \o <<r>> \o SubSeq(sorted, n + 1, Len(sorted))

RECURSIVE SortNoTimeTo(_, _)
SortNoTimeTo(s, n) ==
    IF n = 0 THEN << >> ELSE InsertNoTime(SortNoTimeTo(s, n - 1), s[n])

\* faulty variant: sort_values(['point', 'day_6am']), which keeps the input order
\* inside a group
SortValuesNoTime(s) == SortNoTimeTo(s, Len(s))

\* r put behind the rows of the sorted sequence whose key is not greater
InsertByKey(sorted, r) ==
    LET n == Cardinality({k \in DOMAIN sorted : ~LexLess(SortKey(r), SortKey(sorted[k]))})
    IN SubSeq(sorted, 1, n) \o <<r>> \o SubSeq(sorted, n + 1, Len(sorted))

RECURSIVE SortTo(_, _)
SortTo(s, n) == IF n = 0 THEN << >> ELSE InsertByKey(SortTo(s, n - 1), s[n])

\* sort_values(['point', 'day_6am', 'time']): a lexsort, which is stable, so
\* rows with equal keys keep their input order
SortValues(s) == SortTo(s, Len(s))

SameGroup(a, b) == a.point = b.point /\ a.day_6am = b.day_6am

\* groupby(['point', 'day_6am'])['net_balance'].cumsum(), in row order
GroupCumSum(s) ==
    [i \in DOMAIN s |->
       SumSeq([k \in 1..i |-> IF SameGroup(s[k], s[i]) THEN s[k].net_balance ELSE 0])]

\* set S as the ascending sequence of its tuples
SortedTuples(S) ==
    [k \in 1..Cardinality(S) |->
       CHOOSE x \in S : Cardinality({y \in S : LexLess(y, x)}) = k - 1]

\* faulty variant: lambda x: abs(x)
OptimalCountAbs(x) == IF x < 0 THEN -x ELSE x

\* lambda x: abs(x) if x < 0 else 0
OptimalCount(x) == IF x < 0 THEN -x ELSE 0

\* faulty variant: groupby(['point', 'day_6am'])['cumulative'].last(), the balance at
\* the end of the day
DailyMinLast(s, cumulative) ==
    LET groups == SortedTuples({<<s[i].point, s[i].day_6am>> : i \in DOMAIN s})
        last(g) == cumulative[Max({j \in DOMAIN s : <<s[j].point, s[j].day_6am>> = g})]
    IN [k \in DOMAIN groups |->
          [point |-> groups[k][1], day_6am |-> groups[k][2],
           cumulative |-> last(groups[k]),
           optimal_count |-> OptimalCount(last(groups[k]))]]

\* faulty variant: a group of a single record is left out
DailyMinSeveral(s, cumulative) ==
    LET members(g) == {j \in DOMAIN s : <<s[j].point, s[j].day_6am>> = g}
        groups == SortedTuples({g \in {<<s[i].point, s[i].day_6am>> : i \in DOMAIN s} :
                                  Cardinality(members(g)) > 1})
        low(g) == Min({cumulative[i] : i \in members(g)})
    IN [k \in DOMAIN groups |->
          [point |-> groups[k][1], day_6am |-> groups[k][2],
           cumulative |-> low(groups[k]),
           optimal_count |-> OptimalCount(low(groups[k]))]]

\* groupby(['point', 'day_6am'])['cumulative'].min().reset_index() and the
\* optimal_count column
DailyMin(s, cumulative) ==
    LET groups == SortedTuples({<<s[i].point, s[i].day_6am>> : i \in DOMAIN s})
        low(g) == Min({cumulative[i] :
                         i \in {j \in DOMAIN s : <<s[j].point, s[j].day_6am>> = g}})
    IN [k \in DOMAIN groups |->
          [point |-> groups[k][1], day_6am |-> groups[k][2],
           cumulative |-> low(groups[k]),
           optimal_count |-> OptimalCount(low(groups[k]))]]

\* faulty variant: without the copy the day_6am column is written into the
\* caller's table (the sort and the cumulative column go to a new table)
CallerNetLongNoCopy(nl) == WithDay6am(nl)

\* the caller's table after the call: net_long = net_long.copy() rebinds the
\* local name, the columns are added to the copy
CallerNetLong(nl) == nl

\* net_long['time'], sort_values(['point', ...]) and [...]['net_balance']
\* raise KeyError when the column is missing
calculate_optimal_scooters_raises(nl) == ~HasColumns(nl, {"time", "point", "net_balance"})

calculate_optimal_scooters(nl) ==
    LET sorted == SortValues(WithDay6am(nl))
    IN DailyMin(sorted, GroupCumSum(sorted))

(***************************************************************************)
(* create_od_matrix                                                         *)
(***************************************************************************)
\* data["start_date"].dt.to_period(p): the calendar day, the Monday-to-Sunday
\* week or the month of t, as a number.  Day 0 is Sunday 16 April 2023, so
\* day 1 opens a new week and the days -15 .. 14 lie in one month.
ToPeriod(t, p) ==
    LET day == t \div MinutesPerDay
    IN CASE p = "w" -> (day + 6) \div 7
         [] p = "m" -> 0
         [] OTHER -> day

\* faulty variant: the period column is added also when period is None
create_od_matrix_by_day(d, p) ==
    LET od_data == [i \in DOMAIN d |->
                      <<ToPeriod(d[i].start_date, p), d[i].start_location, d[i].end_location>>]
        keys == SortedTuples(Range(od_data))
        size(g) == Cardinality({i \in DOMAIN od_data : od_data[i] = g})
    IN [k \in DOMAIN keys |->
          [period |-> keys[k][1], start_location |-> keys[k][2],
           end_location |-> keys[k][3], count |-> size(keys[k])]]

\* data[[start_point, end_point]] raises KeyError when a point column is
\* missing, data["start_date"] when that column is missing and a period is
\* given; no other column is read
create_od_matrix_raises(d, p) ==
    \/ ~HasColumns(d, {"start_location", "end_location"})
    \/ p /= "None" /\ ~HasColumns(d, {"start_date"})

\* the caller's table after the call: od_data is a copy of two columns, the
\* period column is added to the copy
DataAfterCreateOdMatrix(d, p) == d

\* faulty variant: the period is taken from the end of the trip
create_od_matrix_by_end(d, p) ==
    LET od_data == [i \in DOMAIN d |->
                      IF p /= "None"
                      THEN <<ToPeriod(d[i].end_date, p), d[i].start_location, d[i].end_location>>
                      ELSE <<d[i].start_location, d[i].end_location>>]
        keys == SortedTuples(Range(od_data))
        size(g) == Cardinality({i \in DOMAIN od_data : od_data[i] = g})
    IN [k \in DOMAIN keys |->
          IF p /= "None"
          THEN [period |-> keys[k][1], start_location |-> keys[k][2],
                end_location |-> keys[k][3], count |-> size(keys[k])]
          ELSE [start_location |-> keys[k][1], end_location |-> keys[k][2],
                count |-> size(keys[k])]]

\* od_data.groupby([...]).size().reset_index(name="count"): one row per group
\* key that occurs, in ascending key order.  p = "None" models period=None.
create_od_matrix(d, p) ==
    LET od_data == [i \in DOMAIN d |->
                      IF p /= "None"
                      THEN <<ToPeriod(d[i].start_date, p), d[i].start_location, d[i].end_location>>
                      ELSE <<d[i].start_location, d[i].end_location>>]
        keys == SortedTuples(Range(od_data))
        size(g) == Cardinality({i \in DOMAIN od_data : od_data[i] = g})
    IN [k \in DOMAIN keys |->
          IF p /= "None"
          THEN [period |-> keys[k][1], start_location |-> keys[k][2],
                end_location |-> keys[k][3], count |-> size(keys[k])]
          ELSE [start_location |-> keys[k][1], end_location |-> keys[k][2],
                count |-> size(keys[k])]]

(***************************************************************************)
(* _classify_point and analyze_od_flows                                     *)
(***************************************************************************)
Rat(n, d) == [num |-> n, den |-> d]

IntRat(n) == Rat(n, 1)

\* comparisons of fractions with positive denominators
RatLT(a, b) == a.num * b.den < b.num * a.den

RatGT(a, b) == RatLT(b, a)

RatLE(a, b) == ~RatLT(b, a)

RatEq(a, b) == a.num * b.den = b.num * a.den

\* faulty variant: net >= 10 and net <= -10 in the strong rules
_classify_point_inclusive(r) ==
    LET net == r.net_flow
        ratio == r.flow_ratio
    IN IF RatLE(IntRat(10), net) /\ RatGT(ratio, Rat(3, 2)) THEN "strong_acceptor"
       ELSE IF RatGT(net, IntRat(5)) THEN "acceptor"
       ELSE IF RatLE(net, IntRat(-10)) /\ RatLT(ratio, Rat(1, 2)) THEN "strong_donor"
       ELSE IF RatLT(net, IntRat(-5)) THEN "donor"
       ELSE IF RatLE(IntRat(-5), net) /\ RatLE(net, IntRat(5)) THEN "balanced"
       ELSE "unknown"

\* faulty variant: the acceptor and donor rules ask for net > 10 and net < -10, which
\* leaves the values between the thresholds to the last branch
_classify_point_gap(r) ==
    LET net == r.net_flow
        ratio == r.flow_ratio
    IN IF RatGT(net, IntRat(10)) /\ RatGT(ratio, Rat(3, 2)) THEN "strong_acceptor"
       ELSE IF RatGT(net, IntRat(10)) THEN "acceptor"
       ELSE IF RatLT(net, IntRat(-10)) /\ RatLT(ratio, Rat(1, 2)) THEN "strong_donor"
       ELSE IF RatLT(net, IntRat(-10)) THEN "donor"
       ELSE IF RatLE(IntRat(-5), net) /\ RatLE(net, IntRat(5)) THEN "balanced"
       ELSE "unknown"

_classify_point(r) ==
    LET net == r.net_flow
        ratio == r.flow_ratio
    IN IF RatGT(net, IntRat(10)) /\ RatGT(ratio, Rat(3, 2)) THEN "strong_acceptor"
       ELSE IF RatGT(net, IntRat(5)) THEN "acceptor"
       ELSE IF RatLT(net, IntRat(-10)) /\ RatLT(ratio, Rat(1, 2)) THEN "strong_donor"
       ELSE IF RatLT(net, IntRat(-5)) THEN "donor"
       ELSE IF RatLE(IntRat(-5), net) /\ RatLE(net, IntRat(5)) THEN "balanced"
       ELSE "unknown"

\* faulty variant: groupby(column)["count"].count(), the number of matrix rows
GroupCountRows(od, column) ==
    [p \in {od[i][column] : i \in DOMAIN od} |->
       Cardinality({i \in DOMAIN od : od[i][column] = p})]

\* od_matrix.groupby(column)["count"].sum(): a function from the points that
\* occur in the column to their summed counts
GroupSum(od, column) ==
    [p \in {od[i][column] : i \in DOMAIN od} |->
       SumSeq([i \in DOMAIN od |-> IF od[i][column] = p THEN od[i].count ELSE 0])]

\* faulty variant: pd.merge(outflow, inflow, on="point"), an inner join
MergeInner(outflow, inflow) ==
    LET points == SortedSeq(DOMAIN outflow \cap DOMAIN inflow)
    IN [k \in DOMAIN points |->
          [point |-> points[k], outflow |-> outflow[points[k]], inflow |-> inflow[points[k]]]]

\* pd.merge(outflow, inflow, on="point", how="outer").fillna(0)
MergeOuterFillNa(outflow, inflow) ==
    LET points == SortedSeq(DOMAIN outflow \cup DOMAIN inflow)
    IN [k \in DOMAIN points |->
          [point |-> points[k],
           outflow |-> IF points[k] \in DOMAIN outflow THEN outflow[points[k]] ELSE 0,
           inflow |-> IF points[k] \in DOMAIN inflow THEN inflow[points[k]] ELSE 0]]

\* Series.replace(0, 1)
Replace(x, old, new) == IF x = old THEN new ELSE x

\* faulty variant: inflow / outflow
FlowRatioNoReplace(inflow, outflow) == Rat(inflow, outflow)

\* inflow / outflow.replace(0, 1)
FlowRatio(inflow, outflow) == Rat(inflow, Replace(outflow, 0, 1))

\* the KeyError of create_od_matrix(data) with its default period 'd', or of
\* od_matrix.groupby(...)["count"] on a custom matrix without the column
analyze_od_flows_raises(d, use_custom, custom_matrix) ==
    IF ~use_custom
    THEN create_od_matrix_raises(d, "d")
    ELSE ~HasColumns(custom_matrix, {"start_location", "end_location", "count"})

\* custom_matrix is read only when use_custom holds (custom_matrix is not None)
analyze_od_flows(d, use_custom, custom_matrix) ==
    LET od == IF ~use_custom THEN create_od_matrix(d, "d") ELSE custom_matrix
        merged == MergeOuterFillNa(GroupSum(od, "start_location"), GroupSum(od, "end_location"))
        summary(m) ==
            LET net_flow == m.inflow - m.outflow
                flow_ratio == FlowRatio(m.inflow, m.outflow)
            IN [point |-> m.point, outflow |-> m.outflow, inflow |-> m.inflow,
                net_flow |-> net_flow, flow_ratio |-> flow_ratio,
                point_type |-> _classify_point([net_flow |-> IntRat(net_flow),
                                                flow_ratio |-> flow_ratio])]
    IN [k \in DOMAIN merged |-> summary(merged[k])]

(***************************************************************************)
(* Inputs.                                                                  *)
(***************************************************************************)
Trips ==
    {t \in [start_date : TripTimes, end_date : TripTimes,
            start_location : Points, end_location : Points] :
       t.start_date <= t.end_date}

TripTables == SeqsUpTo(Trips, MaxTrips) \ {<< >>}

\* net_long tables given to calculate_optimal_scooters directly
MaxRecords == 3

\* day 0 05:59, day 0 06:00, day 1 05:59, day 1 06:00
RecordTimes == {359, 360, 1799, 1800}

Balances == {-2, 1}

Records == [time : RecordTimes, point : Points, net_balance : Balances]

\* one point, one day: +5, -20, +3, -2 at 06:00, 10:00, 14:00, 18:00
ExampleNetLong ==
    <<[time |-> 360, point |-> 1, net_balance |-> 5],
      [time |-> 600, point |-> 1, net_balance |-> -20],
      [time |-> 840, point |-> 1, net_balance |-> 3],
      [time |-> 1080, point |-> 1, net_balance |-> -2]>>

NetLongTables == (SeqsUpTo(Records, MaxRecords) \ {<< >>}) \cup {ExampleNetLong}

\* OD matrices given to analyze_od_flows as custom_matrix
MaxOdRows == 3

Counts == {0, 1, 6, 11}

OdRows == [start_location : Points, end_location : Points, count : Counts]

CustomMatrices == SeqsUpTo(OdRows, MaxOdRows) \ {<< >>}

\* rows given to _classify_point, in hundredths
NetHundredths == {-1100, -1001, -1000, -600, -501, -500, 0, 500, 501, 600, 1000, 1001, 1100}

RatioHundredths == {0, 20, 49, 50, 51, 100, 149, 150, 151, 200}

ClassifyRows ==
    {[net_flow |-> Rat(n, 100), flow_ratio |-> Rat(r, 100)] :
       n \in NetHundredths, r \in RatioHundredths}

NoFrame == [index |-> {}, columns |-> {}, cell |-> << >>]

NoRow == [net_flow |-> IntRat(0), flow_ratio |-> IntRat(0)]

(***************************************************************************)
(* fill_na_median_by_group of src/utils/cleaning.py                         *)
(***************************************************************************)
\* a missing value of a numeric column
NaN == Rat(0, 0)

IsNa(v) == v.den = 0

\* a fraction in lowest terms when it is a whole number or a half
Reduce(v) ==
    IF v.num % v.den = 0 THEN Rat(v.num \div v.den, 1)
    ELSE IF (2 * v.num) % v.den = 0 THEN Rat((2 * v.num) \div v.den, 2)
    ELSE v

RECURSIVE InsertRat(_, _)
InsertRat(sorted, v) ==
    IF sorted = << >> \/ RatLE(sorted[Len(sorted)], v)
    THEN Append(sorted, v)
    ELSE Append(InsertRat(SubSeq(sorted, 1, Len(sorted) - 1), v), sorted[Len(sorted)])

RECURSIVE SortRatsTo(_, _)
SortRatsTo(s, n) == IF n = 0 THEN << >> ELSE InsertRat(SortRatsTo(s, n - 1), s[n])

\* s.median() of the non-missing values: the middle one of the sorted
\* values, or the mean of the two middle ones; NaN when there is none
Median(values) ==
    LET n == Len(values)
        sorted == SortRatsTo(values, n)
        a == sorted[n \div 2]
        b == sorted[n \div 2 + 1]
    IN IF n = 0 THEN NaN
       ELSE IF n % 2 = 1 THEN sorted[(n + 1) \div 2]
       ELSE Reduce(Rat(a.num * b.den + b.num * a.den, 2 * a.den * b.den))

\* the non-missing values of column col in the group of row i
GroupValues(d, i, col, group_cols) ==
    LET members == SortedSeq({j \in DOMAIN d :
                                /\ \A g \in group_cols : d[j][g] = d[i][g]
                                /\ ~IsNa(d[j][col])})
    IN [k \in DOMAIN members |-> d[members[k]][col]]

\* data.groupby(group_cols)[col].transform(lambda s: s.fillna(s.median()))
FillColumn(d, col, group_cols) ==
    [i \in DOMAIN d |->
       [d[i] EXCEPT ![col] = IF IsNa(@) THEN Median(GroupValues(d, i, col, group_cols)) ELSE @]]

\* for col in cols: data[col] = ...; return data
RECURSIVE FillColumnsTo(_, _, _, _)
FillColumnsTo(d, column_list, group_cols, n) ==
    IF n = 0 THEN d
    ELSE FillColumn(FillColumnsTo(d, column_list, group_cols, n - 1), column_list[n], group_cols)

fill_na_median_by_group(d, column_list, group_cols) ==
    FillColumnsTo(d, column_list, group_cols, Len(column_list))

\* tables given to fill_na_median_by_group: a group column g without missing
\* values and two numeric columns x and y
MaxCleanRows == 3

CleanRows == [g : {1, 2}, x : {NaN, IntRat(1), IntRat(4)}, y : {NaN, IntRat(2)}]

CleanTables == SeqsUpTo(CleanRows, MaxCleanRows) \ {<< >>}

ColumnLists == {<<"x">>, <<"x", "y">>}

(***************************************************************************)
(* Initial states: the caller holds one input and nothing was computed.     *)
(***************************************************************************)
\* rows given to get_total_price: every day of the week, the first and the
\* last minute of every hour, with and without promo
PriceTimes == {h * MinutesPerHour + m : h \in 0..23, m \in {0, 59}}

PriceRows ==
    [day_of_week : 0..6, start_date : PriceTimes, duration_minutes : {0, 1, 12},
     promo : BOOLEAN]

\* the start_price arguments of a call: none (the default applies) or one
StartPriceArgs == {<< >>, <<0>>, <<50>>}

NoPriceRow == [day_of_week |-> 0, start_date |-> 0, duration_minutes |-> 0, promo |-> FALSE]

(***************************************************************************)
(* build_hourly_dataset and add_lag_features of src/utils/modeling.py       *)
(***************************************************************************)
\* the members of a set of integers between lo and hi, ascending (found by
\* halving the range, so that a long table needs no deep recursion)
RECURSIVE AscendingIn(_, _, _)
AscendingIn(S, lo, hi) ==
    IF ~\E x \in S : lo <= x /\ x <= hi THEN << >>
    ELSE IF lo = hi THEN <<lo>>
    ELSE AscendingIn(S, lo, (lo + hi) \div 2) \o AscendingIn(S, (lo + hi) \div 2 + 1, hi)

\* groupby(col): the distinct values of the column, ascending
GroupKeys(d, col) ==
    LET S == {d[i][col] : i \in DOMAIN d}
    IN IF S = {} THEN << >> ELSE AscendingIn(S, Min(S), Max(S))

RECURSIVE SumRange(_, _, _)
SumRange(s, lo, hi) ==
    IF hi < lo THEN 0
    ELSE IF lo = hi THEN s[lo]
    ELSE SumRange(s, lo, (lo + hi) \div 2) + SumRange(s, (lo + hi) \div 2 + 1, hi)

\* the values of column col in the rows of one hour, in input order
ValuesOf(d, timestamp_col, t, col) ==
    LET members == SortedSeq({i \in DOMAIN d : d[i][timestamp_col] = t})
    IN [k \in DOMAIN members |-> d[members[k]][col]]

\* ("col", "mean")
MeanOf(values) == Rat(SumSeq(values), Len(values))

\* demand.merge(factors, on=timestamp_col, how="left"): groupby returns one
\* row per distinct timestamp, ascending, in demand and in factors alike
build_hourly_dataset(d, timestamp_col) ==
    LET keys == GroupKeys(d, timestamp_col)
    IN [k \in DOMAIN keys |->
          [hour_timestamp |-> keys[k],
           demand |-> Len(ValuesOf(d, timestamp_col, keys[k], "id")),
           day_of_week |-> Max(Range(ValuesOf(d, timestamp_col, keys[k], "day_of_week"))),
           temperature |-> MeanOf(ValuesOf(d, timestamp_col, keys[k], "temperature")),
           mean_precipitation_total |->
               MeanOf(ValuesOf(d, timestamp_col, keys[k], "precipitation_total")),
           mean_cloud_cover_total |->
               MeanOf(ValuesOf(d, timestamp_col, keys[k], "cloud_cover_total")),
           promo |-> Max(Range(ValuesOf(d, timestamp_col, keys[k], "promo")))]]

\* the caller's table after the call: data["hour_of_day"] = ... is assigned
\* before data is rebound to the merged table, so it lands in the caller's
\* table
DataAfterBuildHourlyDataset(d, timestamp_col) ==
    [i \in DOMAIN d |->
       [c \in DOMAIN d[i] \cup {"hour_of_day"} |->
          IF c = "hour_of_day" THEN HourOf(d[i][timestamp_col]) ELSE d[i][c]]]

HoursPerDay == 24

\* Series.shift(k) of an integer column: the value k rows earlier, NaN in
\* the first k rows
Shift(column, k) ==
    [i \in DOMAIN column |-> IF i > k THEN IntRat(column[i - k]) ELSE NaN]

\* Series.rolling(w).mean() of a column of whole numbers and NaN: the mean
\* of the last w rows, NaN unless all w of them exist and are not NaN
RollingMean(column, w) ==
    [i \in DOMAIN column |->
       IF i < w \/ \E j \in (i - w + 1)..i : IsNa(column[j])
       THEN NaN
       ELSE Rat(SumRange([j \in DOMAIN column |-> column[j].num], i - w + 1, i), w)]

\* data.copy() with the four columns added, then dropna()
add_lag_features(h) ==
    LET demand == [i \in DOMAIN h |-> h[i].demand]
        lag_1h == Shift(demand, 1)
        lag_24h == Shift(demand, HoursPerDay)
        mean_last_24h == RollingMean(lag_1h, HoursPerDay)
        mean_last_7d == RollingMean(lag_1h, HoursPerDay * 7)
        kept == SortedSeq({i \in DOMAIN h :
                             /\ ~IsNa(lag_1h[i])
                             /\ ~IsNa(lag_24h[i])
                             /\ ~IsNa(mean_last_24h[i])
                             /\ ~IsNa(mean_last_7d[i])})
    IN [k \in DOMAIN kept |->
          [hour_timestamp |-> h[kept[k]].hour_timestamp,
           demand |-> h[kept[k]].demand,
           day_of_week |-> h[kept[k]].day_of_week,
           temperature |-> h[kept[k]].temperature,
           mean_precipitation_total |-> h[kept[k]].mean_precipitation_total,
           mean_cloud_cover_total |-> h[kept[k]].mean_cloud_cover_total,
           promo |-> h[kept[k]].promo,
           lag_1h |-> lag_1h[kept[k]],
           lag_24h |-> lag_24h[kept[k]],
           mean_last_24h |-> mean_last_24h[kept[k]],
           mean_last_7d |-> mean_last_7d[kept[k]]]]

\* a trip that starts in the hour at minute t (a multiple of 60): day 0 is
\* a Sunday, day_of_week counts from Monday = 0
HourlyTrip(id, t, temperature, promo) ==
    [id |-> id, hour_timestamp |-> t,
     day_of_week |-> ((t \div MinutesPerDay) + 6) % 7,
     temperature |-> temperature, precipitation_total |-> 0, cloud_cover_total |-> 50,
     promo |-> promo]

\* short trip tables given to build_hourly_dataset
MaxHourlyTrips == 3

HourlySlots == [t : {0, 60, 180}, temperature : {10, 15}, promo : {0, 1}]

ShortTripTables ==
    {[i \in DOMAIN slots |->
        HourlyTrip(i, slots[i].t, slots[i].temperature, slots[i].promo)] :
       slots \in SeqsUpTo(HourlySlots, MaxHourlyTrips) \ {<< >>}}

\* long trip tables, more than a week of hours: one trip in every hour from
\* hour 0 to hour last except hour gap (no gap when gap < 0), and a second
\* trip, last in the table, in hour busy
LongTripTable(last, gap, busy) ==
    LET n == IF gap < 0 THEN last + 1 ELSE last
        hourOf(k) == IF gap < 0 \/ k - 1 < gap THEN k - 1 ELSE k
    IN [k \in 1..(n + 1) |->
          HourlyTrip(k, (IF k <= n THEN hourOf(k) ELSE busy) * MinutesPerHour, 10, 0)]

LongTripTables ==
    {LongTripTable(last, gap, busy) :
       last \in {HoursPerDay * 7, HoursPerDay * 7 + 1, HoursPerDay * 7 + 2},
       gap \in {-1, 100, HoursPerDay * 7 - 1, HoursPerDay * 7},
       busy \in {1, HoursPerDay * 6 + 1, HoursPerDay * 7 - 1}}

\* malformed inputs: a table of at most MaxMalformedRows rows from which
\* one column is missing
MaxMalformedRows == 1

WithoutColumn(table, column) ==
    [i \in DOMAIN table |-> [c \in DOMAIN table[i] \ {column} |-> table[i][c]]]

TripColumns == {"start_date", "end_date", "start_location", "end_location"}

MalformedTripTables ==
    {WithoutColumn(t, c) : t \in SeqsUpTo(Trips, MaxMalformedRows) \ {<< >>}, c \in TripColumns}

NetLongColumns == {"time", "point", "net_balance"}

MalformedNetLongTables ==
    {WithoutColumn(t, c) :
       t \in SeqsUpTo(Records, MaxMalformedRows) \ {<< >>}, c \in NetLongColumns}

MalformedMatrices ==
    {WithoutColumn(t, "count") : t \in SeqsUpTo(OdRows, MaxMalformedRows) \ {<< >>}}

\* trip tables given to select_control_day: rides on Monday, Tuesday and
\* Wednesday (days 1 to 3) at 10:30 and 14:30, on Tuesday also at 09:30 and
\* 13:30.  The column day_of_week holds the name of the weekday of
\* day_timestamp.
MaxRides == 4

WeekdayNames ==
    <<"sunday", "monday", "tuesday", "wednesday", "thursday", "friday", "saturday">>

RideSlots == {<<day, h>> : day \in 1..3, h \in {10, 14}} \cup {<<2, 9>>, <<2, 13>>}

RideTables ==
    {[i \in DOMAIN slots |->
        [id |-> i,
         day_timestamp |-> slots[i][1] * MinutesPerDay,
         day_of_week |-> WeekdayNames[(slots[i][1] % 7) + 1],
         start_date |-> slots[i][1] * MinutesPerDay + slots[i][2] * MinutesPerHour + 30]] :
       slots \in SeqsUpTo(RideSlots, MaxRides) \ {<< >>}}

\* the arguments of a call; 10 and 14 are the default hours
ControlArgs ==
    [target_rides : {1, 2}, exclude_day : {"monday", "wednesday"},
     start_hour : {10}, end_hour : {11, 14}]

NoControlArgs == [target_rides |-> 0, exclude_day |-> "none", start_hour |-> 0, end_hour |-> 0]

NoControlDay == [day_timestamp |-> 0]

NothingComputed ==
    /\ period = "None"
    /\ total_traffic = NoFrame
    /\ daily_min = << >>
    /\ point_summary = << >>
    /\ point_type = "none"
    /\ side = "none"
    /\ traffic_df = NoFrame
    /\ traffic_df_again = NoFrame
    /\ start_price_arg = << >>
    /\ total_price = 0
    /\ fill_cols = << >>
    /\ filled = << >>
    /\ control_args = NoControlArgs
    /\ control_day = NoControlDay
    /\ hourly = << >>
    /\ lagged = << >>

\* the caller holds a trip table
Init ==
    /\ pc = "idle"
    /\ data \in TripTables
    /\ net_long = << >>
    /\ od_matrix = << >>
    /\ row = NoRow
    /\ price_row = NoPriceRow
    /\ clean_data = << >>
    /\ NothingComputed

\* the caller holds a net_long table
InitDeficit ==
    /\ pc = "traffic"
    /\ data = << >>
    /\ net_long \in NetLongTables
    /\ od_matrix = << >>
    /\ row = NoRow
    /\ price_row = NoPriceRow
    /\ clean_data = << >>
    /\ NothingComputed

\* the caller holds an OD matrix of its own
InitCustom ==
    /\ pc = "od"
    /\ data = << >>
    /\ net_long = << >>
    /\ od_matrix \in CustomMatrices
    /\ row = NoRow
    /\ price_row = NoPriceRow
    /\ clean_data = << >>
    /\ NothingComputed

InitFlows == Init \/ InitCustom

\* the caller holds one row with net_flow and flow_ratio
InitClassify ==
    /\ pc = "row"
    /\ data = << >>
    /\ net_long = << >>
    /\ od_matrix = << >>
    /\ row \in ClassifyRows
    /\ price_row = NoPriceRow
    /\ clean_data = << >>
    /\ NothingComputed

\* the caller holds one trip row to price
InitPrice ==
    /\ pc = "trip"
    /\ data = << >>
    /\ net_long = << >>
    /\ od_matrix = << >>
    /\ row = NoRow
    /\ price_row \in PriceRows
    /\ clean_data = << >>
    /\ NothingComputed

\* the caller holds a table with missing values
InitClean ==
    /\ pc = "dirty"
    /\ data = << >>
    /\ net_long = << >>
    /\ od_matrix = << >>
    /\ row = NoRow
    /\ price_row = NoPriceRow
    /\ clean_data \in CleanTables
    /\ NothingComputed

\* the caller holds a trip table with day_timestamp and day_of_week
InitControl ==
    /\ pc = "rides"
    /\ data \in RideTables
    /\ net_long = << >>
    /\ od_matrix = << >>
    /\ row = NoRow
    /\ price_row = NoPriceRow
    /\ clean_data = << >>
    /\ NothingComputed

\* the caller holds a trip table with hour_timestamp and the factor columns
InitHourly ==
    /\ pc = "trips"
    /\ data \in ShortTripTables \cup LongTripTables
    /\ net_long = << >>
    /\ od_matrix = << >>
    /\ row = NoRow
    /\ price_row = NoPriceRow
    /\ clean_data = << >>
    /\ NothingComputed

\* the caller holds a table with a missing column
InitMalformed ==
    /\ \/ pc = "idle" /\ data \in MalformedTripTables /\ net_long = << >> /\ od_matrix = << >>
       \/ pc = "traffic" /\ data = << >> /\ net_long \in MalformedNetLongTables
            /\ od_matrix = << >>
       \/ pc = "od" /\ data = << >> /\ net_long = << >> /\ od_matrix \in MalformedMatrices
    /\ row = NoRow
    /\ price_row = NoPriceRow
    /\ clean_data = << >>
    /\ NothingComputed

(***************************************************************************)
(* Actions: one call of a function each.                                    *)
(***************************************************************************)
\* total_traffic, net_long = traffic_by_points(data, p)
TrafficByPoints ==
    /\ pc = "idle"
    /\ \E p \in Periods :
         /\ period' = p
         /\ IF traffic_by_points_raises(data)
            THEN /\ pc' = "KeyError"
                 /\ UNCHANGED <<data, total_traffic, net_long>>
            ELSE LET result == traffic_by_points(data, p)
                 IN /\ total_traffic' = result[1]
                    /\ net_long' = result[2]
                    /\ data' = DataAfterCreateTrafficDf(
                                  DataAfterCreateTrafficDf(data, "start_date"), "end_date")
                    /\ pc' = "traffic"
    /\ UNCHANGED <<daily_min, od_matrix, point_summary, row, point_type>>
    /\ UNCHANGED <<aggregatorVars, priceVars, cleanVars, controlVars, hourlyVars>>

\* daily_min = calculate_optimal_scooters(net_long)
CalculateOptimalScooters ==
    /\ pc = "traffic"
    /\ IF calculate_optimal_scooters_raises(net_long)
       THEN /\ pc' = "KeyError"
            /\ UNCHANGED <<daily_min, net_long>>
       ELSE /\ daily_min' = calculate_optimal_scooters(net_long)
            /\ net_long' = CallerNetLong(net_long)
            /\ pc' = "deficit"
    /\ UNCHANGED <<data, period, total_traffic, od_matrix, point_summary, row, point_type>>
    /\ UNCHANGED <<aggregatorVars, priceVars, cleanVars, controlVars, hourlyVars>>

\* od_matrix = create_od_matrix(data, period=p)
CreateOdMatrix ==
    /\ pc = "idle"
    /\ \E p \in OdPeriods :
         /\ period' = p
         /\ IF create_od_matrix_raises(data, p)
            THEN /\ pc' = "KeyError"
                 /\ UNCHANGED <<data, od_matrix>>
            ELSE /\ od_matrix' = create_od_matrix(data, p)
                 /\ data' = DataAfterCreateOdMatrix(data, p)
                 /\ pc' = "od"
    /\ UNCHANGED <<total_traffic, net_long, daily_min, point_summary, row, point_type>>
    /\ UNCHANGED <<aggregatorVars, priceVars, cleanVars, controlVars, hourlyVars>>

\* point_summary = analyze_od_flows(data), on the trip table as it is or
\* after traffic_by_points(data, period) has been called on it
AnalyzeOdFlows ==
    /\ pc \in {"idle", "traffic"}
    /\ IF analyze_od_flows_raises(data, FALSE, << >>)
       THEN /\ pc' = "KeyError"
            /\ UNCHANGED <<data, point_summary>>
       ELSE /\ point_summary' = analyze_od_flows(data, FALSE, << >>)
            /\ data' = DataAfterCreateOdMatrix(data, "d")
            /\ pc' = "flows"
    /\ UNCHANGED <<period, total_traffic, net_long, daily_min, od_matrix, row, point_type>>
    /\ UNCHANGED <<aggregatorVars, priceVars, cleanVars, controlVars, hourlyVars>>

\* point_summary = analyze_od_flows(data, custom_matrix=od_matrix)
AnalyzeOdFlowsCustom ==
    /\ pc = "od"
    /\ IF analyze_od_flows_raises(data, TRUE, od_matrix)
       THEN /\ pc' = "KeyError"
            /\ UNCHANGED point_summary
       ELSE /\ point_summary' = analyze_od_flows(data, TRUE, od_matrix)
            /\ pc' = "flows"
    /\ UNCHANGED <<data, period, total_traffic, net_long, daily_min, od_matrix, row,
                   point_type>>
    /\ UNCHANGED <<aggregatorVars, priceVars, cleanVars, controlVars, hourlyVars>>

\* point_type = _classify_point(row)
ClassifyPoint ==
    /\ pc = "row"
    /\ point_type' = _classify_point(row)
    /\ pc' = "classified"
    /\ UNCHANGED <<data, period, total_traffic, net_long, daily_min, od_matrix,
                   point_summary, row>>
    /\ UNCHANGED <<aggregatorVars, priceVars, cleanVars, controlVars, hourlyVars>>

\* traffic_df = create_departures_df(data, p) or create_arrivals_df(data, p)
CreateTrafficDf ==
    /\ pc = "idle"
    /\ \E p \in Periods, s \in {"departures", "arrivals"} :
         /\ period' = p
         /\ side' = s
         /\ traffic_df' = CreateSeries(data, s, p)
         /\ data' = DataAfterCreateTrafficDf(data, DateColumn(s))
    /\ pc' = "series"
    /\ UNCHANGED <<total_traffic, net_long, daily_min, od_matrix, point_summary, row,
                   point_type, traffic_df_again, priceVars, cleanVars>>
    /\ UNCHANGED <<controlVars, hourlyVars>>

\* the same call once more, on the table the first call left behind
CreateTrafficDfAgain ==
    /\ pc = "series"
    /\ traffic_df_again' = CreateSeries(data, side, period)
    /\ data' = IF HasColumns(data, {DateColumn(side)})
               THEN DataAfterCreateTrafficDf(data, DateColumn(side))
               ELSE data
    /\ pc' = "series2"
    /\ UNCHANGED <<period, total_traffic, net_long, daily_min, od_matrix, point_summary,
                   row, point_type, side, traffic_df, priceVars, cleanVars>>
    /\ UNCHANGED <<controlVars, hourlyVars>>

\* total_price = get_total_price(price_row) or get_total_price(price_row, start_price)
GetTotalPrice ==
    /\ pc = "trip"
    /\ \E args \in StartPriceArgs :
         /\ start_price_arg' = args
         /\ total_price' = IF args = << >>
                           THEN get_total_price(price_row, DefaultStartPrice)
                           ELSE get_total_price(price_row, args[1])
    /\ pc' = "priced"
    /\ UNCHANGED <<data, period, total_traffic, net_long, daily_min, od_matrix,
                   point_summary, row, point_type, price_row, aggregatorVars, cleanVars>>
    /\ UNCHANGED <<controlVars, hourlyVars>>

\* filled = fill_na_median_by_group(clean_data, fill_cols, ["g"]): every
\* data[col] = ... assigns into the caller's table, and return data hands
\* back that same table
FillNaMedianByGroup ==
    /\ pc = "dirty"
    /\ \E column_list \in ColumnLists :
         LET result == fill_na_median_by_group(clean_data, column_list, {"g"})
         IN /\ fill_cols' = column_list
            /\ clean_data' = result
            /\ filled' = result
    /\ pc' = "filled"
    /\ UNCHANGED <<data, period, total_traffic, net_long, daily_min, od_matrix,
                   point_summary, row, point_type, aggregatorVars, priceVars>>
    /\ UNCHANGED <<controlVars, hourlyVars>>

\* control_day = select_control_day(data, target_rides, exclude_day,
\*                                  start_hour, end_hour)
SelectControlDay ==
    /\ pc = "rides"
    /\ \E args \in ControlArgs :
         /\ control_args' = args
         /\ control_day' \in select_control_day(data, args.target_rides, args.exclude_day,
                                                args.start_hour, args.end_hour)
    /\ pc' = "control"
    /\ UNCHANGED <<data, period, total_traffic, net_long, daily_min, od_matrix,
                   point_summary, row, point_type, aggregatorVars, priceVars, cleanVars,
                   hourlyVars>>

\* hourly = build_hourly_dataset(data)
BuildHourlyDataset ==
    /\ pc = "trips"
    /\ hourly' = build_hourly_dataset(data, "hour_timestamp")
    /\ data' = DataAfterBuildHourlyDataset(data, "hour_timestamp")
    /\ pc' = "hourly"
    /\ UNCHANGED <<period, total_traffic, net_long, daily_min, od_matrix, point_summary,
                   row, point_type, aggregatorVars, priceVars, cleanVars, controlVars,
                   lagged>>

\* lagged = add_lag_features(hourly)
AddLagFeatures ==
    /\ pc = "hourly"
    /\ lagged' = add_lag_features(hourly)
    /\ pc' = "lagged"
    /\ UNCHANGED <<data, period, total_traffic, net_long, daily_min, od_matrix,
                   point_summary, row, point_type, aggregatorVars, priceVars, cleanVars,
                   controlVars, hourly>>

Next ==
    \/ TrafficByPoints
    \/ CalculateOptimalScooters
    \/ CreateOdMatrix
    \/ AnalyzeOdFlows
    \/ AnalyzeOdFlowsCustom

Spec == Init /\ [][Next]_vars

NextDeficit == CalculateOptimalScooters

SpecDeficit == InitDeficit /\ [][NextDeficit]_vars

NextFlows ==
    \/ CreateOdMatrix
    \/ AnalyzeOdFlows
    \/ AnalyzeOdFlowsCustom

SpecFlows == InitFlows /\ [][NextFlows]_vars

NextSeries ==
    \/ CreateTrafficDf
    \/ CreateTrafficDfAgain

SpecSeries == Init /\ [][NextSeries]_vars

NextPrice == GetTotalPrice

SpecPrice == InitPrice /\ [][NextPrice]_vars

NextClean == FillNaMedianByGroup

SpecClean == InitClean /\ [][NextClean]_vars

NextControl == SelectControlDay

SpecControl == InitControl /\ [][NextControl]_vars

NextHourly ==
    \/ BuildHourlyDataset
    \/ AddLagFeatures

SpecHourly == InitHourly /\ [][NextHourly]_vars

NextMalformed ==
    \/ TrafficByPoints
    \/ CalculateOptimalScooters
    \/ CreateOdMatrix
    \/ AnalyzeOdFlows
    \/ AnalyzeOdFlowsCustom

SpecMalformed == InitMalformed /\ [][NextMalformed]_vars

NextClassify == ClassifyPoint

SpecClassify == InitClassify /\ [][NextClassify]_vars

(***************************************************************************)
(* Properties of traffic_by_points.                                         *)
(***************************************************************************)
NetBalanceSum(nl, p) ==
    SumSeq([i \in DOMAIN nl |-> IF nl[i].point = p THEN nl[i].net_balance ELSE 0])

TripsEndingAt(p) == Cardinality({i \in DOMAIN data : data[i].end_location = p})

TripsStartingAt(p) == Cardinality({i \in DOMAIN data : data[i].start_location = p})

\* C1: conservation of flow.  After traffic_by_points, for every point p the
\* net_balance of the net_long rows of p sums to (trips ending at p) minus
\* (trips starting at p), for every trip table and both periods.
C1_ConservationOfFlow ==
    pc = "traffic" =>
        \A p \in Points :
            NetBalanceSum(net_long, p) = TripsEndingAt(p) - TripsStartingAt(p)

\* C1 witness: a trip that leaves one point in one bucket and reaches another
\* point in a later bucket, so that net_long lacks rows of the bucket x point
\* grid, and the balances of both points are not zero.
C1_Witness ==
    /\ pc = "traffic"
    /\ Len(net_long) < Cardinality(total_traffic.index) * Cardinality(total_traffic.columns)
    /\ NetBalanceSum(net_long, 1) < 0
    /\ NetBalanceSum(net_long, 2) > 0

(***************************************************************************)
(* Properties of calculate_optimal_scooters.                                *)
(***************************************************************************)
SixAM == 6 * MinutesPerHour

\* the operating day D runs from 06:00 of day D to 06:00 of day D + 1
InOperatingDay(t, D) ==
    /\ D * MinutesPerDay + SixAM <= t
    /\ t < (D + 1) * MinutesPerDay + SixAM

\* the records of net_long of point p in operating day D
GroupOf(p, D) ==
    {i \in DOMAIN net_long : net_long[i].point = p /\ InOperatingDay(net_long[i].time, D)}

\* record j is no later than record i: ascending time, equal times in input order
NoLater(j, i) ==
    \/ net_long[j].time < net_long[i].time
    \/ net_long[j].time = net_long[i].time /\ j <= i

\* the running balance of the group right after record i
PrefixSum(G, i) ==
    SumSeq([j \in DOMAIN net_long |->
              IF j \in G /\ NoLater(j, i) THEN net_long[j].net_balance ELSE 0])

PrefixSums(G) == {PrefixSum(G, i) : i \in G}

\* C2: for every (point, operating-day) row of the result, cumulative is the
\* minimum of the group's prefix sums of net_balance in ascending time order
\* and optimal_count = max(0, -cumulative); the balances +5, -20, +3, -2 at
\* 06:00, 10:00, 14:00, 18:00 give cumulative = -15 and optimal_count = 15.
C2_MinimumOfPrefixSums ==
    pc = "deficit" =>
        /\ \A k \in DOMAIN daily_min :
             LET r == daily_min[k]
                 G == {i \in DOMAIN net_long : /\ net_long[i].point = r.point
                                               /\ DayKey(net_long[i].time) = r.day_6am}
             IN /\ G /= {}
                /\ r.cumulative = Min(PrefixSums(G))
                /\ r.optimal_count = Max({0, -r.cumulative})
        /\ net_long = ExampleNetLong =>
             daily_min = <<[point |-> 1, day_6am |-> 0, cumulative |-> -15,
                            optimal_count |-> 15]>>

\* C2 witness: the synthetic series of the example has been evaluated.
C2_Witness ==
    /\ pc = "deficit"
    /\ net_long = ExampleNetLong
    /\ daily_min[1].cumulative = -15
    /\ daily_min[1].optimal_count = 15

\* C3: a record with timestamp t belongs to the operating day D with
\* 06:00 of day D <= t < 06:00 of day D + 1; every record is covered by the row
\* of its point and operating day, and a row accumulates exactly the records
\* of its point inside that window (the running sum restarts at 06:00).
C3_OperatingDayBoundary ==
    pc = "deficit" =>
        /\ \A i \in DOMAIN net_long :
             \E k \in DOMAIN daily_min :
                /\ daily_min[k].point = net_long[i].point
                /\ InOperatingDay(net_long[i].time, daily_min[k].day_6am)
        /\ \A k \in DOMAIN daily_min :
             LET G == GroupOf(daily_min[k].point, daily_min[k].day_6am)
             IN /\ G /= {}
                /\ daily_min[k].cumulative = Min(PrefixSums(G))

\* C3 witness: one point has a record at 05:59 and one at 06:00 of day 1, the
\* first in the row of operating day 0 and the second in the row of day 1,
\* and a record at 05:59 of day 0 in the row of operating day -1.
C3_Witness ==
    /\ pc = "deficit"
    /\ \E p \in Points :
         /\ {359, 1799, 1800} \subseteq {net_long[i].time : i \in {j \in DOMAIN net_long : net_long[j].point = p}}
         /\ {-1, 0, 1} \subseteq {daily_min[k].day_6am : k \in {j \in DOMAIN daily_min : daily_min[j].point = p}}

\* C4: every row of the result has optimal_count >= 0, and optimal_count = 0
\* exactly when the row's minimum cumulative balance is >= 0.
C4_DeficitNonNegative ==
    pc = "deficit" =>
        \A k \in DOMAIN daily_min :
            /\ daily_min[k].optimal_count >= 0
            /\ daily_min[k].optimal_count = 0 <=> daily_min[k].cumulative >= 0

\* C4 witness: a result with a row whose minimum is positive and a row whose
\* minimum is negative.
C4_Witness ==
    /\ pc = "deficit"
    /\ \E k \in DOMAIN daily_min :
         daily_min[k].cumulative > 0 /\ daily_min[k].optimal_count = 0
    /\ \E k \in DOMAIN daily_min :
         daily_min[k].cumulative < 0 /\ daily_min[k].optimal_count > 0

\* C5: starting the operating day with optimal_count units keeps the running
\* stock >= 0 after every record of the group, and when optimal_count > 0
\* every smaller non-negative starting stock goes negative after some record.
C5_MinimumStock ==
    pc = "deficit" =>
        \A k \in DOMAIN daily_min :
            LET sums == PrefixSums(GroupOf(daily_min[k].point, daily_min[k].day_6am))
                n == daily_min[k].optimal_count
            IN /\ \A x \in sums : n + x >= 0
               /\ \A start \in 0..(n - 1) : \E x \in sums : start + x < 0

\* C5 witness: a group that runs into deficit and recovers before the day ends.
C5_Witness ==
    /\ pc = "deficit"
    /\ \E k \in DOMAIN daily_min :
         LET G == GroupOf(daily_min[k].point, daily_min[k].day_6am)
         IN /\ daily_min[k].optimal_count > 0
            /\ Cardinality(G) > 1
            /\ \A i, j \in G : i /= j => net_long[i].time /= net_long[j].time
            /\ \E i \in G : PrefixSum(G, i) > Min(PrefixSums(G)) /\ \A j \in G : NoLater(j, i)

(***************************************************************************)
(* Properties of _classify_point.  The rows are given in hundredths.        *)
(***************************************************************************)
NetH == row.net_flow.num

RatioH == row.flow_ratio.num

\* the five rules in their order, on hundredths
Rules ==
    <<[label |-> "strong_acceptor", holds |-> NetH > 1000 /\ RatioH > 150],
      [label |-> "acceptor", holds |-> NetH > 500],
      [label |-> "strong_donor", holds |-> NetH < -1000 /\ RatioH < 50],
      [label |-> "donor", holds |-> NetH < -500],
      [label |-> "balanced", holds |-> -500 <= NetH /\ NetH <= 500]>>

\* C6: _classify_point returns the label of the first rule that holds in the
\* order strong_acceptor, acceptor, strong_donor, donor, balanced; (10, 2.0)
\* gives acceptor, (10.01, 1.51) strong_acceptor, (6, 0.2) acceptor and net = 0
\* balanced for every ratio.
C6_FirstRuleThatHolds ==
    pc = "classified" =>
        /\ \E k \in DOMAIN Rules :
             /\ Rules[k].holds
             /\ \A j \in 1..(k - 1) : ~Rules[j].holds
             /\ point_type = Rules[k].label
        /\ NetH = 1000 /\ RatioH = 200 => point_type = "acceptor"
        /\ NetH = 1001 /\ RatioH = 151 => point_type = "strong_acceptor"
        /\ NetH = 600 /\ RatioH = 20 => point_type = "acceptor"
        /\ NetH = 0 => point_type = "balanced"

\* C6 witness: the boundary row (10.01, 1.51) has been classified.
C6_Witness ==
    /\ pc = "classified"
    /\ NetH = 1001
    /\ RatioH = 151
    /\ point_type = "strong_acceptor"

\* net in (5, 10] with ratio <= 1.5
InAcceptorGap == 500 < NetH /\ NetH <= 1000 /\ RatioH <= 150

\* net in [-10, -5) with ratio >= 0.5
InDonorGap == -1000 <= NetH /\ NetH < -500 /\ RatioH >= 50

\* C7 as stated: a point with net in (5, 10] and ratio <= 1.5, or net in
\* [-10, -5) and ratio >= 0.5, is classified "unknown".
C7_GapIsUnknown ==
    pc = "classified" /\ (InAcceptorGap \/ InDonorGap) => point_type = "unknown"

\* C7 amended: a point with net in (5, 10] and ratio <= 1.5 is classified
\* "acceptor", one with net in [-10, -5) and ratio >= 0.5 is classified
\* "donor", and no row with numeric net and ratio is classified "unknown".
C7_GapIsAcceptorOrDonor ==
    pc = "classified" =>
        /\ InAcceptorGap => point_type = "acceptor"
        /\ InDonorGap => point_type = "donor"
        /\ point_type /= "unknown"

\* C7 witness: rows of both gaps have been classified, e.g. (6, 1.0).
C7_Witness ==
    /\ pc = "classified"
    /\ InAcceptorGap
    /\ NetH = 600
    /\ RatioH = 100
    /\ point_type = "acceptor"

(***************************************************************************)
(* Properties of analyze_od_flows and create_od_matrix.                     *)
(***************************************************************************)
\* the matrix analyze_od_flows worked on is the caller's od_matrix when one
\* was given; without one it was built from data, where a point's outflow is
\* the number of trips that start there and its inflow the number that end there
MatrixOutflow(p) ==
    IF od_matrix /= << >>
    THEN SumSeq([i \in DOMAIN od_matrix |->
                   IF od_matrix[i].start_location = p THEN od_matrix[i].count ELSE 0])
    ELSE TripsStartingAt(p)

MatrixInflow(p) ==
    IF od_matrix /= << >>
    THEN SumSeq([i \in DOMAIN od_matrix |->
                   IF od_matrix[i].end_location = p THEN od_matrix[i].count ELSE 0])
    ELSE TripsEndingAt(p)

Origins ==
    IF od_matrix /= << >>
    THEN {od_matrix[i].start_location : i \in DOMAIN od_matrix}
    ELSE {data[i].start_location : i \in DOMAIN data}

Destinations ==
    IF od_matrix /= << >>
    THEN {od_matrix[i].end_location : i \in DOMAIN od_matrix}
    ELSE {data[i].end_location : i \in DOMAIN data}

\* C8: in every row of the summary flow_ratio = inflow / max(outflow, 1), for
\* matrices built from data and for custom matrices; the ratio is always
\* defined, and a point with outflow 0 gets flow_ratio = inflow.
C8_FlowRatioGuard ==
    pc = "flows" =>
        \A k \in DOMAIN point_summary :
            LET r == point_summary[k]
                outflow == MatrixOutflow(r.point)
                inflow == MatrixInflow(r.point)
            IN /\ r.flow_ratio.den > 0
               /\ r.flow_ratio.num * Max({outflow, 1}) = inflow * r.flow_ratio.den
               /\ outflow = 0 => r.flow_ratio.num = inflow * r.flow_ratio.den

\* C8 witness: a point without outflow and with inflow, whose ratio is its inflow.
C8_Witness ==
    /\ pc = "flows"
    /\ \E k \in DOMAIN point_summary :
         /\ point_summary[k].outflow = 0
         /\ point_summary[k].inflow > 1
         /\ point_summary[k].flow_ratio = Rat(point_summary[k].inflow, 1)

\* C9: every point that occurs as an origin or as a destination of the matrix
\* has exactly one row in the summary and no other point has one; a point that
\* is only an origin has inflow = 0, a point that is only a destination has
\* outflow = 0, and net_flow = inflow - outflow in every row.
C9_OuterJoinComplete ==
    pc = "flows" =>
        /\ \A p \in Origins \cup Destinations :
             Cardinality({k \in DOMAIN point_summary : point_summary[k].point = p}) = 1
        /\ \A k \in DOMAIN point_summary :
             LET r == point_summary[k]
             IN /\ r.point \in Origins \cup Destinations
                /\ r.point \notin Destinations => r.inflow = 0
                /\ r.point \notin Origins => r.outflow = 0
                /\ r.outflow = MatrixOutflow(r.point)
                /\ r.inflow = MatrixInflow(r.point)
                /\ r.net_flow = r.inflow - r.outflow

\* C9 witness: a summary with a point that is only an origin and a point that
\* is only a destination.
C9_Witness ==
    /\ pc = "flows"
    /\ \E k \in DOMAIN point_summary :
         /\ point_summary[k].point \in Origins \ Destinations
         /\ point_summary[k].inflow = 0
         /\ point_summary[k].outflow > 0
    /\ \E k \in DOMAIN point_summary :
         /\ point_summary[k].point \in Destinations \ Origins
         /\ point_summary[k].outflow = 0

TripPairs == {<<data[i].start_location, data[i].end_location>> : i \in DOMAIN data}

TripsOfPair(o, d) ==
    Cardinality({i \in DOMAIN data : data[i].start_location = o /\ data[i].end_location = d})

\* C10: create_od_matrix with period=None returns exactly one row per
\* (origin, destination) pair that has at least one trip, its count is the
\* number of trips of that pair over the whole dataset, and no pair without
\* trips has a row.
C10_NoPeriodMatrix ==
    pc = "od" /\ period = "None" /\ data /= << >> =>
        /\ Len(od_matrix) = Cardinality(TripPairs)
        /\ \A pair \in TripPairs :
             Cardinality({k \in DOMAIN od_matrix :
                            /\ od_matrix[k].start_location = pair[1]
                            /\ od_matrix[k].end_location = pair[2]}) = 1
        /\ \A k \in DOMAIN od_matrix :
             /\ od_matrix[k].count = TripsOfPair(od_matrix[k].start_location,
                                                 od_matrix[k].end_location)
             /\ od_matrix[k].count >= 1

\* C10 witness: two trips of one pair that start on different days are
\* counted in one row.
C10_Witness ==
    /\ pc = "od"
    /\ period = "None"
    /\ \E i, j \in DOMAIN data :
         /\ data[i].start_date \div MinutesPerDay /= data[j].start_date \div MinutesPerDay
         /\ data[i].start_location = data[j].start_location
         /\ data[i].end_location = data[j].end_location
    /\ \E k \in DOMAIN od_matrix : od_matrix[k].count = 2

(***************************************************************************)
(* C11: with a period, the count of a row of create_od_matrix is the number *)
(* of trips with the row's origin and destination whose start time falls   *)
(* in the row's period, whatever their end time; and for every pair the     *)
(* counts summed over the periods equal the pair's count in the matrix of   *)
(* period=None.                                                             *)
(***************************************************************************)
\* t falls in period number q of granularity p
InPeriod(t, p, q) ==
    IF p = "d"
    THEN q * MinutesPerDay <= t /\ t < (q + 1) * MinutesPerDay
    ELSE ToPeriod(t, p) = q

RECURSIVE PairTotalTo(_, _, _)
PairTotalTo(matrix, pair, n) ==
    IF n = 0 THEN 0
    ELSE PairTotalTo(matrix, pair, n - 1)
         + (IF <<matrix[n].start_location, matrix[n].end_location>> = pair
            THEN matrix[n].count ELSE 0)

PairTotal(matrix, pair) == PairTotalTo(matrix, pair, Len(matrix))

C11_PeriodFromStartTime ==
    (pc = "od" /\ period /= "None" /\ data /= << >>) =>
        /\ \A k \in DOMAIN od_matrix :
              od_matrix[k].count =
                Cardinality({i \in DOMAIN data :
                    /\ data[i].start_location = od_matrix[k].start_location
                    /\ data[i].end_location = od_matrix[k].end_location
                    /\ InPeriod(data[i].start_date, period, od_matrix[k].period)})
        /\ \A pair \in Points \X Points :
              PairTotal(od_matrix, pair) = PairTotal(create_od_matrix(data, "None"), pair)

\* two trips of one pair start on different days, one of them ends on the
\* day after its start, and the daily matrix holds a row for each day
C11_Witness ==
    /\ pc = "od"
    /\ period = "d"
    /\ \E i \in DOMAIN data :
          ToPeriod(data[i].start_date, "d") < ToPeriod(data[i].end_date, "d")
    /\ \E k, l \in DOMAIN od_matrix :
          /\ od_matrix[k].period < od_matrix[l].period
          /\ od_matrix[k].start_location = od_matrix[l].start_location
          /\ od_matrix[k].end_location = od_matrix[l].end_location

(***************************************************************************)
(* C12: in the output of create_departures_df / create_arrivals_df every    *)
(* point of the chosen point column is a column, every fixed-width bucket   *)
(* between the earliest and the latest timestamp of the whole input is a    *)
(* row, and every cell is a number, never NaN.                              *)
(***************************************************************************)
SeriesDates == {data[i][DateColumn(side)] : i \in DOMAIN data}

SeriesPoints == {data[i][PointColumn(side)] : i \in DOMAIN data}

\* every bucket of width w from the bucket of the earliest timestamp to the
\* bucket of the latest one
BucketRange(dates, w) ==
    {FloorTo(Min(dates), w) + k * w :
       k \in 0..((FloorTo(Max(dates), w) - FloorTo(Min(dates), w)) \div w)}

C12_CompleteGrid ==
    pc = "series" =>
        /\ traffic_df.columns = SeriesPoints
        /\ BucketRange(SeriesDates, PeriodWidth(period)) \subseteq traffic_df.index
        /\ \A c \in traffic_df.index \X traffic_df.columns : c \in DOMAIN traffic_df.cell

(***************************************************************************)
(* C15: each cell (b, p) of create_departures_df is the number of trips     *)
(* with start point p whose start_date falls in bucket b, each cell of      *)
(* create_arrivals_df the same with the end point and end_date, and each    *)
(* column sums to the number of trips departing from / arriving at p.       *)
(***************************************************************************)
TripsInCell(s, b, p, w) ==
    {i \in DOMAIN data :
        /\ data[i][PointColumn(s)] = p
        /\ b <= data[i][DateColumn(s)]
        /\ data[i][DateColumn(s)] < b + w}

ColumnSum(frame, p) ==
    LET idx == SortedSeq(frame.index)
    IN SumSeq([k \in DOMAIN idx |-> frame.cell[<<idx[k], p>>]])

C15_CellCounts ==
    pc = "series" =>
        /\ \A b \in traffic_df.index, p \in traffic_df.columns :
              traffic_df.cell[<<b, p>>]
                = Cardinality(TripsInCell(side, b, p, PeriodWidth(period)))
        /\ \A p \in traffic_df.columns :
              ColumnSum(traffic_df, p)
                = Cardinality({i \in DOMAIN data : data[i][PointColumn(side)] = p})

\* hourly arrivals with a cell of two trips, one of which started in an
\* earlier bucket than it ended in
C15_Witness ==
    /\ pc = "series"
    /\ side = "arrivals"
    /\ period = "h"
    /\ \E c \in DOMAIN traffic_df.cell : traffic_df.cell[c] = 2
    /\ \E i \in DOMAIN data :
          FloorTo(data[i].start_date, MinutesPerHour) < FloorTo(data[i].end_date, MinutesPerHour)

(***************************************************************************)
(* C16: two calls of create_departures_df (or create_arrivals_df) in a row  *)
(* on the same trip table and period return identical outputs.              *)
(***************************************************************************)
C16_Idempotent ==
    pc = "series2" => traffic_df_again = traffic_df

\* the second call returned a table of several buckets and points
C16_Witness ==
    /\ pc = "series2"
    /\ traffic_df_again = traffic_df
    /\ traffic_df /= KeyError
    /\ Cardinality(traffic_df.index) > 1
    /\ Cardinality(traffic_df.columns) > 1

(***************************************************************************)
(* C13: net_long of traffic_by_points has exactly one row for every         *)
(* combination of a bucket in the union of the departures' and arrivals'    *)
(* buckets and a point in the union of the start and end points, and its    *)
(* net_balance is the number arrivals - departures, an absent side counted  *)
(* as 0.                                                                    *)
(***************************************************************************)
AllBuckets ==
    create_departures_df(data, period).index \cup create_arrivals_df(data, period).index

AllPoints ==
    {data[i].start_location : i \in DOMAIN data} \cup {data[i].end_location : i \in DOMAIN data}

\* the count of a cell, 0 when the series has no such bucket or point
CountOrZero(frame, c) == IF c \in DOMAIN frame.cell THEN frame.cell[c] ELSE 0

C13_NetLongComplete ==
    pc = "traffic" =>
        /\ \A b \in AllBuckets, p \in AllPoints :
              \E k \in DOMAIN net_long :
                 /\ net_long[k].time = b
                 /\ net_long[k].point = p
                 /\ net_long[k].net_balance
                      = CountOrZero(create_arrivals_df(data, period), <<b, p>>)
                        - CountOrZero(create_departures_df(data, period), <<b, p>>)
                 /\ \A l \in DOMAIN net_long :
                       (net_long[l].time = b /\ net_long[l].point = p) => l = k
        /\ \A k \in DOMAIN net_long :
              net_long[k].time \in AllBuckets /\ net_long[k].point \in AllPoints

(***************************************************************************)
(* C14: total_traffic has the union of the points as columns and the union  *)
(* of the buckets as rows, and every cell is departures + arrivals with an  *)
(* absent side counted as 0; no cell is NaN.                                *)
(***************************************************************************)
C14_TotalTrafficComplete ==
    pc = "traffic" =>
        /\ total_traffic.columns = AllPoints
        /\ total_traffic.index = AllBuckets
        /\ \A c \in AllBuckets \X AllPoints :
              /\ c \in DOMAIN total_traffic.cell
              /\ total_traffic.cell[c]
                   = CountOrZero(create_departures_df(data, period), c)
                     + CountOrZero(create_arrivals_df(data, period), c)

(***************************************************************************)
(* C17: the core functions leave their inputs unchanged: a call of          *)
(* traffic_by_points, create_od_matrix or analyze_od_flows leaves the       *)
(* caller's trip table as it was, and a call of calculate_optimal_scooters  *)
(* leaves the caller's net_long without a day_6am or cumulative column and  *)
(* in its row order.                                                        *)
(***************************************************************************)
C17_InputsUnchanged ==
    [][/\ (pc = "idle" /\ pc' \in {"traffic", "od", "flows"}) => data' = data
       /\ (pc = "od" /\ pc' = "flows") => (data' = data /\ od_matrix' = od_matrix)
       /\ (pc = "traffic" /\ pc' = "deficit") =>
             /\ \A i \in DOMAIN net_long' :
                   DOMAIN net_long'[i] = {"time", "point", "net_balance"}
             /\ net_long' = net_long]_vars

\* calculate_optimal_scooters has returned, and the caller's net_long is
\* still in time order, which is not the order the function sorts it into
C17_Witness ==
    /\ pc = "deficit"
    /\ daily_min /= << >>
    /\ data /= << >>
    /\ \E k, l \in DOMAIN net_long :
          k < l /\ net_long[k].point > net_long[l].point
    /\ \A i \in DOMAIN net_long : "day_6am" \notin DOMAIN net_long[i]

(***************************************************************************)
(* C18: calculate_optimal_scooters returns exactly one row for every        *)
(* (point, operating-day) pair that has at least one input record and no    *)
(* row for any other pair; for a group of a single record cumulative is     *)
(* that record's net_balance, and optimal_count is 0 when it is not         *)
(* negative.                                                                *)
(***************************************************************************)
\* the rows of the result for point p and operating day D
RowsOf(p, D) ==
    {k \in DOMAIN daily_min : daily_min[k].point = p /\ daily_min[k].day_6am = D}

C18_OneRowPerGroup ==
    pc = "deficit" =>
        /\ \A i \in DOMAIN net_long :
              \E k \in DOMAIN daily_min :
                 /\ daily_min[k].point = net_long[i].point
                 /\ InOperatingDay(net_long[i].time, daily_min[k].day_6am)
        /\ \A k \in DOMAIN daily_min :
              LET G == GroupOf(daily_min[k].point, daily_min[k].day_6am)
              IN /\ G /= {}
                 /\ RowsOf(daily_min[k].point, daily_min[k].day_6am) = {k}
                 /\ \A i \in G :
                       G = {i} =>
                          /\ daily_min[k].cumulative = net_long[i].net_balance
                          /\ net_long[i].net_balance >= 0 => daily_min[k].optimal_count = 0

\* a group of one record with a positive balance next to a group of several
C18_Witness ==
    /\ pc = "deficit"
    /\ \E k, l \in DOMAIN daily_min :
          /\ Cardinality(GroupOf(daily_min[k].point, daily_min[k].day_6am)) = 1
          /\ daily_min[k].cumulative > 0
          /\ daily_min[k].optimal_count = 0
          /\ Cardinality(GroupOf(daily_min[l].point, daily_min[l].day_6am)) > 1

(***************************************************************************)
(* C19: get_total_price returns rate * duration_minutes when day_of_week is *)
(* 0, 6 <= hour < 10 and promo is set, and start_price + rate *             *)
(* duration_minutes in every other case (start_price is 30 by default).     *)
(* The rate is 3 in the hours 1-5 and 4 in the hours 6-9 on every day,      *)
(* 5 (Mon-Fri) or 6 (Sat-Sun) in the hours 10-15, 6 or 7 in the hours       *)
(* 16-21, and 5 or 6 in the hours 22, 23 and 0.                             *)
(***************************************************************************)
\* the tariff as a table: hour -> <<Mon-Fri, Sat-Sun>>
RateTable ==
    [h \in 0..23 |->
       CASE h \in 1..5 -> <<3, 3>>
         [] h \in 6..9 -> <<4, 4>>
         [] h \in 10..15 -> <<5, 6>>
         [] h \in 16..21 -> <<6, 7>>
         [] h \in {22, 23, 0} -> <<5, 6>>]

\* the hour of the row, from its clock time
PriceHour == CHOOSE h \in 0..23 :
    \E day \in 0..1, m \in 0..59 :
       price_row.start_date = day * MinutesPerDay + h * MinutesPerHour + m

C19_TotalPrice ==
    pc = "priced" =>
        LET rate == RateTable[PriceHour][IF price_row.day_of_week \in 0..4 THEN 1 ELSE 2]
            start == IF start_price_arg = << >> THEN 30 ELSE start_price_arg[1]
        IN total_price =
             IF price_row.day_of_week = 0 /\ PriceHour \in 6..9 /\ price_row.promo
             THEN rate * price_row.duration_minutes
             ELSE start + rate * price_row.duration_minutes

\* a promo trip of 12 minutes on Monday at 09:00 or 09:59, priced 4 * 12
\* without the start fee
C19_Witness ==
    /\ pc = "priced"
    /\ price_row.day_of_week = 0
    /\ PriceHour = 9
    /\ price_row.promo
    /\ price_row.duration_minutes = 12
    /\ start_price_arg = << >>
    /\ total_price = 48

(***************************************************************************)
(* C20: fill_na_median_by_group returns a new DataFrame in which every      *)
(* missing value of each listed column is replaced by the median of the     *)
(* non-missing values of its group (it stays missing when the whole group   *)
(* is missing) and every non-missing value is kept; the DataFrame passed in *)
(* by the caller is left unchanged.                                         *)
(***************************************************************************)
\* the returned table holds the group medians in place of the missing
\* values of the listed columns and the values of table everywhere else
FilledFrom(table, column_list, returned) ==
    /\ DOMAIN returned = DOMAIN table
    /\ \A i \in DOMAIN table :
          /\ returned[i].g = table[i].g
          /\ \A c \in {"x", "y"} :
                IF c \in Range(column_list) /\ IsNa(table[i][c])
                THEN LET values == GroupValues(table, i, c, {"g"})
                     IN IF values = << >>
                        THEN IsNa(returned[i][c])
                        ELSE /\ ~IsNa(returned[i][c])
                             /\ RatEq(returned[i][c], Median(values))
                ELSE returned[i][c] = table[i][c]

C20_NewFrameInputUnchanged ==
    [][(pc = "dirty" /\ pc' = "filled") =>
          /\ FilledFrom(clean_data, fill_cols', filled')
          /\ clean_data' = clean_data]_vars

(***************************************************************************)
(* C21: select_control_day returns a day whose weekday differs from         *)
(* exclude_day and whose number of rides with start_hour <= hour < end_hour *)
(* is closest to target_rides among all such days; only days with a ride in *)
(* the hour window are candidates, and the trips of the excluded weekday    *)
(* never influence the result.                                              *)
(***************************************************************************)
\* the rides of the day that started in the hour window of the call
RidesInWindow(day) ==
    {i \in DOMAIN data :
        /\ data[i].day_timestamp = day
        /\ \E h \in control_args.start_hour .. (control_args.end_hour - 1) :
              /\ day + h * MinutesPerHour <= data[i].start_date
              /\ data[i].start_date < day + (h + 1) * MinutesPerHour}

\* the days that may be returned: another weekday, a ride in the window
EligibleDays ==
    {day \in {data[i].day_timestamp : i \in DOMAIN data} :
        /\ WeekdayNames[((day \div MinutesPerDay) % 7) + 1] /= control_args.exclude_day
        /\ RidesInWindow(day) /= {}}

\* the table without the trips of the excluded weekday
WithoutExcluded ==
    LET kept == SortedSeq({i \in DOMAIN data : data[i].day_of_week /= control_args.exclude_day})
    IN [k \in DOMAIN kept |-> data[kept[k]]]

C21_ClosestControlDay ==
    (pc = "control" /\ control_day /= IndexError) =>
        /\ control_day.day_timestamp \in EligibleDays
        /\ \A day \in EligibleDays :
              Abs(Cardinality(RidesInWindow(control_day.day_timestamp))
                    - control_args.target_rides)
                <= Abs(Cardinality(RidesInWindow(day)) - control_args.target_rides)
        /\ control_day \in select_control_day(WithoutExcluded, control_args.target_rides,
                                               control_args.exclude_day,
                                               control_args.start_hour, control_args.end_hour)

\* the excluded Monday has exactly target_rides rides in the window, and
\* the day returned is the closer one of two other days
C21_Witness ==
    /\ pc = "control"
    /\ control_day /= IndexError
    /\ control_args.exclude_day = "monday"
    /\ control_args.target_rides = 1
    /\ \E i \in DOMAIN data :
          /\ data[i].day_of_week = "monday"
          /\ Cardinality(RidesInWindow(data[i].day_timestamp)) = 1
    /\ Cardinality(EligibleDays) = 2
    /\ \E day \in EligibleDays :
          Abs(Cardinality(RidesInWindow(day)) - 1)
            > Abs(Cardinality(RidesInWindow(control_day.day_timestamp)) - 1)

(***************************************************************************)
(* C22: add_lag_features on the table of build_hourly_dataset: in every     *)
(* returned row of hour h, lag_1h is the demand of hour h - 1 and lag_24h   *)
(* the demand of hour h - 24, also when some hours have no trips; and no    *)
(* returned row holds a missing value.                                      *)
(***************************************************************************)
\* the number of trips in the hour that starts at t
DemandOfHour(t) == Cardinality({i \in DOMAIN data : data[i].hour_timestamp = t})

C22_LagsByHour ==
    pc = "lagged" =>
        \A k \in DOMAIN lagged :
           /\ lagged[k].lag_1h
                = IntRat(DemandOfHour(lagged[k].hour_timestamp - MinutesPerHour))
           /\ lagged[k].lag_24h
                = IntRat(DemandOfHour(lagged[k].hour_timestamp - MinutesPerDay))
           /\ ~IsNa(lagged[k].lag_1h)
           /\ ~IsNa(lagged[k].lag_24h)
           /\ ~IsNa(lagged[k].mean_last_24h)
           /\ ~IsNa(lagged[k].mean_last_7d)
           /\ ~IsNa(lagged[k].temperature)

(***************************************************************************)
(* C25: build_hourly_dataset leaves the caller's trip table with the same   *)
(* columns and values as before, and the returned table has one row per     *)
(* distinct hour_timestamp with demand equal to the number of trips in      *)
(* that hour.                                                               *)
(***************************************************************************)
C25_HourlyInputUnchanged ==
    [][(pc = "trips" /\ pc' = "hourly") =>
          /\ data' = data
          /\ {hourly'[k].hour_timestamp : k \in DOMAIN hourly'}
               = {data[i].hour_timestamp : i \in DOMAIN data}
          /\ \A k, l \in DOMAIN hourly' :
                hourly'[k].hour_timestamp = hourly'[l].hour_timestamp => k = l
          /\ \A k \in DOMAIN hourly' :
                hourly'[k].demand = DemandOfHour(hourly'[k].hour_timestamp)]_vars

(***************************************************************************)
(* C23: chronological order, not input order, determines the deficit: for   *)
(* a net_long table with distinct (point, time) pairs, every permutation of *)
(* the input rows gives the same calculate_optimal_scooters output.         *)
(***************************************************************************)
DistinctPointTimes ==
    \A i, j \in DOMAIN net_long :
       (net_long[i].point = net_long[j].point /\ net_long[i].time = net_long[j].time)
         => i = j

\* net_long with the rows i and j exchanged
Swapped(i, j) ==
    [k \in DOMAIN net_long |->
       IF k = i THEN net_long[j] ELSE IF k = j THEN net_long[i] ELSE net_long[k]]

\* Every permutation is a chain of exchanges of two rows, and every table of
\* such a chain is itself a table the function is called with, so the
\* output is the same for all permutations of a table when no exchange of
\* two rows changes it.
C23_PermutationInvariant ==
    (pc = "deficit" /\ DistinctPointTimes) =>
        \A i, j \in DOMAIN net_long :
           i < j => calculate_optimal_scooters(Swapped(i, j)) = daily_min

\* a table that lists a later record of a group before an earlier one, where
\* summing in input order would give another minimum
C23_Witness ==
    /\ pc = "deficit"
    /\ DistinctPointTimes
    /\ \E i, j \in DOMAIN net_long :
          /\ i < j
          /\ net_long[i].point = net_long[j].point
          /\ DayKey(net_long[i].time) = DayKey(net_long[j].time)
          /\ net_long[i].time > net_long[j].time
          /\ net_long[i].net_balance < 0
          /\ net_long[j].net_balance > 0
          /\ \E k \in DOMAIN daily_min :
                /\ daily_min[k].point = net_long[i].point
                /\ daily_min[k].cumulative = net_long[i].net_balance + net_long[j].net_balance

(***************************************************************************)
(* C24: malformed input fails the whole call: when a required column is     *)
(* absent (start_date, end_date or a point column for traffic_by_points and *)
(* create_od_matrix; time, point or net_balance for                         *)
(* calculate_optimal_scooters; count for a custom matrix given to           *)
(* analyze_od_flows), the call ends in an error that reaches the caller, no *)
(* result table is returned, and the caller's input table is unchanged.     *)
(***************************************************************************)
\* the step ends in the error and leaves inputs and results as they were
CallFailed ==
    /\ pc' = "KeyError"
    /\ UNCHANGED <<data, net_long, od_matrix, total_traffic, daily_min, point_summary>>

\* C24: every call on a table with a required column missing ends in the
\* error, returns no table and leaves the caller's tables unchanged.
C24_MalformedInputFails ==
    [][/\ ((TrafficByPoints \/ CreateOdMatrix) /\ ~HasColumns(data, TripColumns))
            => CallFailed
       /\ (CalculateOptimalScooters /\ ~HasColumns(net_long, NetLongColumns))
            => CallFailed
       /\ (AnalyzeOdFlowsCustom /\ ~HasColumns(od_matrix, {"count"}))
            => CallFailed]_vars

(***************************************************************************)
(* C26: the point summary does not depend on the granularity of the matrix. *)
(***************************************************************************)
\* C26: for a trip table, the summary made from the default per-day matrix
\* and the summaries made from create_od_matrix(data, period=p), p one of
\* None, 'd', 'w', 'm', have the same rows; in every row outflow is the number
\* of trips starting at the point and inflow the number ending at it, a trip
\* from a point to itself counting once on each side.
C26_GranularityIndependent ==
    (pc = "flows" /\ data /= << >>) =>
        /\ point_summary = analyze_od_flows(data, FALSE, << >>)
        /\ \A p \in OdPeriods :
             analyze_od_flows(data, TRUE, create_od_matrix(data, p)) = point_summary
        /\ \A k \in DOMAIN point_summary :
             /\ point_summary[k].outflow = TripsStartingAt(point_summary[k].point)
             /\ point_summary[k].inflow = TripsEndingAt(point_summary[k].point)

\* C26 witness: a summary made from a per-month matrix in which two trips of
\* different days share one row, one of them from a point to itself.
C26_Witness ==
    /\ pc = "flows"
    /\ period = "m"
    /\ Len(data) = 2
    /\ data[1].start_date \div MinutesPerDay /= data[2].start_date \div MinutesPerDay
    /\ \E k \in DOMAIN od_matrix :
         /\ od_matrix[k].count = 2
         /\ od_matrix[k].start_location = od_matrix[k].end_location
    /\ \E k \in DOMAIN point_summary :
         point_summary[k].outflow = 2 /\ point_summary[k].inflow = 2

(***************************************************************************)
(* C27: calculate_optimal_scooters on daily buckets.                        *)
(***************************************************************************)
\* C27: when net_long comes from traffic_by_points(data, 'D'), every record
\* lies at midnight of a calendar day D and is the only record of its group
\* (point, operating day D - 1): the result has as many rows as net_long has
\* records, and the row of a record holds day_6am = D - 1, cumulative =
\* net_balance and optimal_count = max(0, -net_balance).
C27_DailyBuckets ==
    (pc = "deficit" /\ period = "D" /\ data /= << >>) =>
        /\ Len(daily_min) = Len(net_long)
        /\ \A i \in DOMAIN net_long :
             LET r == net_long[i]
                 D == r.time \div MinutesPerDay
                 rows == {k \in DOMAIN daily_min :
                            daily_min[k].point = r.point /\ daily_min[k].day_6am = D - 1}
             IN /\ r.time = D * MinutesPerDay
                /\ Cardinality(rows) = 1
                /\ \A k \in rows :
                     /\ daily_min[k].cumulative = r.net_balance
                     /\ daily_min[k].optimal_count = Max({0, -r.net_balance})

\* C27 witness: daily buckets of day 0 and of day 1, the bucket of day 1 with
\* a negative balance, which the result shows as a deficit of operating day 0.
C27_Witness ==
    /\ pc = "deficit"
    /\ period = "D"
    /\ \E i, j \in DOMAIN net_long :
         /\ net_long[i].time = 0
         /\ net_long[j].time = MinutesPerDay
         /\ net_long[j].net_balance < 0
         /\ \E k \in DOMAIN daily_min :
              /\ daily_min[k].point = net_long[j].point
              /\ daily_min[k].day_6am = 0
              /\ daily_min[k].optimal_count = -net_long[j].net_balance

(***************************************************************************)
(* C28: the net flow of the point summary and the net balances of the       *)
(* buckets agree.                                                           *)
(***************************************************************************)
\* the sum of the net_balance values of point p over all its buckets
BalanceOverBuckets(p) ==
    SumSeq([i \in DOMAIN net_long |->
              IF net_long[i].point = p THEN net_long[i].net_balance ELSE 0])

\* C28: after traffic_by_points(data, period) and analyze_od_flows(data) on
\* one trip table, for either period, every point with a bucket has a row in
\* the summary, the net_flow of every row equals the sum of the point's
\* net_balance over all buckets, and the net_flow values of all rows sum to 0.
C28_NetFlowIsBalanceSum ==
    (pc = "flows" /\ net_long /= << >>) =>
        /\ {net_long[i].point : i \in DOMAIN net_long}
              \subseteq {point_summary[k].point : k \in DOMAIN point_summary}
        /\ \A k \in DOMAIN point_summary :
             point_summary[k].net_flow = BalanceOverBuckets(point_summary[k].point)
        /\ SumSeq([k \in DOMAIN point_summary |-> point_summary[k].net_flow]) = 0

\* C28 witness: hourly buckets; a point loses one scooter in each of two
\* buckets and has net_flow = -2 in the summary.
C28_Witness ==
    /\ pc = "flows"
    /\ period = "h"
    /\ \E i, j \in DOMAIN net_long :
         /\ net_long[i].point = net_long[j].point
         /\ net_long[i].time < net_long[j].time
         /\ net_long[i].net_balance = -1
         /\ net_long[j].net_balance = -1
         /\ \E k \in DOMAIN point_summary :
              /\ point_summary[k].point = net_long[i].point
              /\ point_summary[k].net_flow = -2

====
